---- MODULE Spec2Model ----
\* ClipGenius AI: the view state machine of App, the Gemini service calls it
\* awaits, the YouTube identifier extraction and the ChatBot conversation.
\*
\* src/App.tsx holds three revisions of the App component one after the other
\* (lines 10-147, 159-300 and 913-1068).  They differ in what the handlers
\* store, so the model carries the revision as variant (1, 2, 3), fixed at
\* start-up, and every handler follows the text of its revision.
EXTENDS Integers, Sequences, FiniteSets, Bags, TLC

VARIABLES
    variant,      \* which revision of App is running
    apiKey,       \* App.apiKey (revision 3), process.env.API_KEY otherwise
    videoSource,  \* App.videoSource
    state,        \* App.state
    analysis,     \* App.analysis
    errorMsg,     \* App.errorMsg
    pending,      \* bag of handleFileSelect / handleYoutubeSubmit calls suspended at their await
    alertMsg,     \* text of the alert() raised by the last step, "" if none
    logged,       \* the error passed to console.error by the last step
    input,        \* ChatBot.input
    messages,     \* ChatBot.messages
    isLoading,    \* ChatBot.isLoading
    chatPending,  \* bag of handleSend calls suspended at their await
    playerCmds,   \* what the last step told the video element or the iframe
    decoded,      \* a response text and what the service made of it
    strictDev,    \* a development build, in which React.StrictMode is at work
    blobs,        \* the blob URLs of VideoPlayer: how many are unrevoked, and the one shown
    lastOp        \* the handler that ran last, with its arguments (history)

vars == <<variant, apiKey, videoSource, state, analysis, errorMsg, pending,
          alertMsg, logged, input, messages, isLoading, chatPending,
          playerCmds, decoded, strictDev, blobs, lastOp>>

appVars == <<videoSource, state, analysis, errorMsg>>
chatVars == <<input, messages, isLoading, chatPending>>

-----------------------------------------------------------------------------
\* Bounds of the model

\* analysis requests that may be suspended at once
MaxInFlight == 2
\* chat requests that may be suspended at once (live and orphaned)
MaxChatInFlight == 2
\* turns a conversation may hold
MaxTurns == 5
\* blob URLs that may be unrevoked at once
MaxBlobs == 2

-----------------------------------------------------------------------------
\* types.ts

IDLE == "IDLE"
ANALYZING == "ANALYZING"
READY == "READY"
ERROR == "ERROR"
AppState == {IDLE, ANALYZING, READY, ERROR}

\* null, as stored in videoSource and analysis
NULL == [type |-> "null"]

FileSource(f) == [type |-> "file", file |-> f]
YoutubeSource(u, i) == [type |-> "youtube", url |-> u, id |-> i]

Variants == {1, 2, 3}

-----------------------------------------------------------------------------
\* Inputs

Files == {"a.mp4"}

PLACEHOLDER_KEY == "YOUR_API_KEY_HERE"
EnvKeys == {"", PLACEHOLDER_KEY, "key-1"}
TypedKeys == {"", "key-1"}

\* https://www.youtube.com/watch?v=dQw4w9WgXcQ
UrlWatch ==
    <<"h", "t", "t", "p", "s", ":", "/", "/", "w", "w", "w", ".", "y", "o", "u", "t", "u", "b", "e", ".", "c", "o", "m", "/", "w", "a", "t", "c", "h", "?", "v", "=", "d", "Q", "w", "4", "w", "9", "W", "g", "X", "c", "Q">>
\* https://youtu.be/dQw4w9WgXcQ
UrlShort ==
    <<"h", "t", "t", "p", "s", ":", "/", "/", "y", "o", "u", "t", "u", ".", "b", "e", "/", "d", "Q", "w", "4", "w", "9", "W", "g", "X", "c", "Q">>
\* https://example.com/not-a-video
UrlNotVideo ==
    <<"h", "t", "t", "p", "s", ":", "/", "/", "e", "x", "a", "m", "p", "l", "e", ".", "c", "o", "m", "/", "n", "o", "t", "-", "a", "-", "v", "i", "d", "e", "o">>
\* https://m.youtube.com/?v=dQw4w9WgXcQ
UrlBareQuery ==
    <<"h", "t", "t", "p", "s", ":", "/", "/", "m", ".", "y", "o", "u", "t", "u", "b", "e", ".", "c", "o", "m", "/", "?", "v", "=", "d", "Q", "w", "4", "w", "9", "W", "g", "X", "c", "Q">>
\* https://youtu.be/dQw4w9WgXc
UrlTooShort ==
    <<"h", "t", "t", "p", "s", ":", "/", "/", "y", "o", "u", "t", "u", ".", "b", "e", "/", "d", "Q", "w", "4", "w", "9", "W", "g", "X", "c">>
\* https://youtu.be/dQw4w9WgXcQ?x=/v/abc
UrlTwoMarkers ==
    <<"h", "t", "t", "p", "s", ":", "/", "/", "y", "o", "u", "t", "u", ".", "b", "e", "/", "d", "Q", "w", "4", "w", "9", "W", "g", "X", "c", "Q", "?", "x", "=", "/", "v", "/", "a", "b", "c">>

Urls == {UrlWatch, UrlShort, UrlNotVideo, UrlBareQuery, UrlTooShort, UrlTwoMarkers}

\* dQw4w9WgXcQ
IdRick == <<"d", "Q", "w", "4", "w", "9", "W", "g", "X", "c", "Q">>

-----------------------------------------------------------------------------
\* extractYoutubeId: the regular expression
\*   /^.*(youtu.be\/|v\/|u\/\w\/|embed\/|watch\?v=|&v=)([^#&?]*).*/
\* and the test match[2].length === 11.

\* \w
WordChars ==
    {"a", "b", "c", "d", "e", "f", "g", "h", "i", "j", "k", "l", "m", "n", "o", "p", "q", "r", "s", "t", "u", "v", "w", "x", "y", "z",
     "A", "B", "C", "D", "E", "F", "G", "H", "I", "J", "K", "L", "M", "N", "O", "P", "Q", "R", "S", "T", "U", "V", "W", "X", "Y", "Z",
     "0", "1", "2", "3", "4", "5", "6", "7", "8", "9", "_"}

\* the alternatives of group 1, in order; "<.>" is the unescaped dot of
\* youtu.be and "<w>" is \w
Markers ==
    << <<"y", "o", "u", "t", "u", "<.>", "b", "e", "/">>,
       <<"v", "/">>,
       <<"u", "/", "<w>", "/">>,
       <<"e", "m", "b", "e", "d", "/">>,
       <<"w", "a", "t", "c", "h", "?", "v", "=">>,
       <<"&", "v", "=">> >>

\* [^#&?]
IdStop == {"#", "&", "?"}

\* one pattern element against one character
ElemMatches(e, c) ==
    CASE e = "<.>" -> TRUE
      [] e = "<w>" -> c \in WordChars
      [] OTHER -> e = c

\* alternative m matches url at positions p .. p + Len(m) - 1
MarkerAt(url, p, m) ==
    /\ p >= 1
    /\ p + Len(m) - 1 <= Len(url)
    /\ \A k \in 1..Len(m) : ElemMatches(m[k], url[p + k - 1])

\* the first alternative that matches at p, 0 if none does
AltAt(url, p) ==
    IF \E a \in 1..Len(Markers) : MarkerAt(url, p, Markers[a])
    THEN CHOOSE a \in 1..Len(Markers) :
            /\ MarkerAt(url, p, Markers[a])
            /\ \A b \in 1..(a - 1) : ~MarkerAt(url, p, Markers[b])
    ELSE 0

\* the greedy ^.* : the engine gives back one character at a time, so group 1
\* is tried at p = Len(url) + 1, Len(url), ..., 1 and the first success wins
RECURSIVE Backtrack(_, _)
Backtrack(url, p) ==
    IF p < 1 THEN 0
    ELSE IF AltAt(url, p) # 0 THEN p
    ELSE Backtrack(url, p - 1)

\* ([^#&?]*) from position p: greedy, the longest run without # & ?
RECURSIVE IdRun(_, _)
IdRun(url, p) ==
    IF p > Len(url) \/ url[p] \in IdStop THEN <<>>
    ELSE <<url[p]>> \o IdRun(url, p + 1)

\* url.match(regExp): NULL, or the record of groups
RegExpMatch(url) ==
    LET p == Backtrack(url, Len(url) + 1) IN
    IF p = 0 THEN [matched |-> FALSE, g2 |-> <<>>]
    ELSE [matched |-> TRUE,
          g2 |-> IdRun(url, p + Len(Markers[AltAt(url, p)]))]

\* no identifier
NoId == <<>>

\* extractYoutubeId without the test of the length of group 2
extractYoutubeId_NoLengthTest(url) ==
    LET match == RegExpMatch(url) IN
    IF match.matched THEN match.g2 ELSE NoId

extractYoutubeId(url) ==
    LET match == RegExpMatch(url) IN
    IF match.matched /\ Len(match.g2) = 11 THEN match.g2 ELSE NoId

\* extractYoutubeId on the URLs of the model, evaluated once
idOf == [u \in Urls |-> extractYoutubeId(u)]

-----------------------------------------------------------------------------
\* services/geminiService.ts: what an awaited analysis call produces

\* Response texts are sequences of tokens.  A JSON document of the
\* VideoAnalysis shape is <<"{", QUOTE, title tokens, QUOTE, score, "}">>: the
\* string videoTitle between its quotes and the number viralScore.
\* the fence markers: three backquotes, with and without the word json
FENCE_JSON == "<fence>json"
FENCE == "<fence>"
NL == "\n"
QUOTE == "<quote>"

\* JSON.stringify of a document
Render(doc) ==
    <<"{", QUOTE>> \o doc.videoTitle \o <<QUOTE, ToString(doc.viralScore), "}">>

\* the document in a fenced block: fence, json, newline, document, newline, fence
Fenced(text) == <<FENCE_JSON, NL>> \o text \o <<NL, FENCE>>

DocPlain == Render([type |-> "analysis", videoTitle |-> <<"Title">>, viralScore |-> 7])
TextPlain == DocPlain
TextFenced == Fenced(DocPlain)
TextProse == <<"I", "cannot", "watch", "videos">>
TextEmpty == <<>>

ResponseTexts == {TextPlain, TextFenced, TextProse, TextEmpty}

\* errors
NoErr == [name |-> "", message |-> ""]
Err(n, m) == [name |-> n, message |-> m]
\* FileReader.onerror rejects with the ProgressEvent, which has no message
ReadError == Err("ProgressEvent", "")
\* ai.models.generateContent rejects: transport or credential
GatewayErrors == {Err("ApiError", "API key not valid. Please pass a valid API key.")}
NoTextError == Err("Error", "No response from Gemini")
ParseError == Err("Error", "Failed to parse AI response.")
SyntaxError == Err("SyntaxError", "Unexpected token in JSON")

\* what the awaited gateway call does: the file read fails, the request
\* fails, or a response with some text arrives
Outcomes ==
    {[kind |-> "readError", err |-> ReadError, text |-> <<>>]}
    \cup {[kind |-> "gatewayError", err |-> e, text |-> <<>>] : e \in GatewayErrors}
    \cup {[kind |-> "response", err |-> NoErr, text |-> t] : t \in ResponseTexts}

\* a document with a clip scored above the scale of the schema ("Score from
\* 1 to 10" is a description, the response is not bound by it)
TextOffScale == Render([type |-> "analysis", videoTitle |-> <<"Title">>, viralScore |-> 11])

\* the outcomes of Outcomes and the response off the scale
ViewOutcomes ==
    Outcomes \cup {[kind |-> "response", err |-> NoErr, text |-> TextOffScale]}

WhiteSpace == {NL, " "}

\* String.prototype.trim
RECURSIVE TrimLeft(_)
TrimLeft(s) ==
    IF s # <<>> /\ Head(s) \in WhiteSpace THEN TrimLeft(Tail(s)) ELSE s

RECURSIVE TrimRight(_)
TrimRight(s) ==
    IF s # <<>> /\ s[Len(s)] \in WhiteSpace
    THEN TrimRight(SubSeq(s, 1, Len(s) - 1)) ELSE s

Trim(s) == TrimRight(TrimLeft(s))

\* text.replace(/<fence>json\n?|<fence>/g, '')
RECURSIVE StripFences(_)
StripFences(s) ==
    IF s = <<>> THEN <<>>
    ELSE IF Head(s) = FENCE_JSON
         THEN IF Len(s) >= 2 /\ s[2] = NL
              THEN StripFences(Tail(Tail(s)))
              ELSE StripFences(Tail(s))
    ELSE IF Head(s) = FENCE THEN StripFences(Tail(s))
    ELSE <<Head(s)>> \o StripFences(Tail(s))

\* a number token and its value
IsNumber(t) == \E n \in 0..99 : ToString(n) = t
NumberOf(t) == CHOOSE n \in 0..99 : ToString(n) = t

\* JSON.parse: white space around the document is skipped; a string ends at
\* the next quote and holds no line break
JsonParse(s) ==
    LET t == Trim(s)
        n == Len(t) IN
    IF /\ n >= 5
       /\ t[1] = "{" /\ t[2] = QUOTE
       /\ \A k \in 3..(n - 3) : t[k] \notin {QUOTE, NL}
       /\ t[n - 2] = QUOTE /\ IsNumber(t[n - 1]) /\ t[n] = "}"
    THEN [ok |-> TRUE,
          value |-> [type |-> "analysis", videoTitle |-> SubSeq(t, 3, n - 3),
                     viralScore |-> NumberOf(t[n - 1])]]
    ELSE [ok |-> FALSE, value |-> NULL]

\* What a decoding returns or throws; consoleText is the raw text it passes
\* to console.error, <<>> if it logs none.
Decoded(value) == [ok |-> TRUE, value |-> value, err |-> NoErr, consoleText |-> <<>>]
Thrown(err, consoleText) == [ok |-> FALSE, value |-> NULL, err |-> err, consoleText |-> consoleText]

\* safeJsonParse (revisions 1 and 2)
safeJsonParse(text) ==
    LET cleanedText == Trim(StripFences(text))
        r == JsonParse(cleanedText) IN
    IF r.ok THEN Decoded(r.value)
    ELSE Thrown(ParseError, text)

\* JSON.parse(text) as VideoAnalysis (revision 3)
plainJsonParse(text) ==
    LET r == JsonParse(text) IN
    IF r.ok THEN Decoded(r.value)
    ELSE Thrown(SyntaxError, <<>>)

\* decodeResponse without if (!text) throw: the empty text goes to the parser
decodeResponse_NoEmptyTest(v, text) ==
    IF v = 3 THEN plainJsonParse(text)
    ELSE safeJsonParse(text)

\* the tail shared by analyzeVideoContent and analyzeYouTubeVideo
decodeResponse(v, text) ==
    IF text = <<>> THEN Thrown(NoTextError, <<>>)
    ELSE IF v = 3 THEN plainJsonParse(text)
    ELSE safeJsonParse(text)

\* analyzeVideoContent / analyzeYouTubeVideo: resolve with a VideoAnalysis
\* or reject with an error
analyzeResult(v, o) ==
    IF o.kind = "response" THEN decodeResponse(v, o.text)
    ELSE Thrown(o.err, <<>>)

\* Decoding on its own: documents of the VideoAnalysis shape, plain and
\* fenced, and texts that are no JSON.
MaxTitleLen == 2
TitleTokens == {"a", FENCE, FENCE_JSON}
Titles == UNION {[1..n -> TitleTokens] : n \in 0..MaxTitleLen}
Scores == {7, 11}
Documents == {[type |-> "analysis", videoTitle |-> t, viralScore |-> n] : t \in Titles, n \in Scores}

\* a document cut short, and a fenced block without a document
TextCut == <<"{", QUOTE, "a">>
TextFencedProse == Fenced(<<"oops">>)
NonJsonTexts == {TextProse, TextCut, TextFencedProse}

NoDecoding == [doc |-> NULL, wrap |-> "", text |-> <<>>, done |-> FALSE, result |-> NULL]

DecodeInputs ==
    {[doc |-> d, wrap |-> "plain", text |-> Render(d), done |-> FALSE, result |-> NULL] : d \in Documents}
    \cup {[doc |-> d, wrap |-> "fenced", text |-> Fenced(Render(d)), done |-> FALSE, result |-> NULL] : d \in Documents}
    \cup {[doc |-> NULL, wrap |-> "", text |-> t, done |-> FALSE, result |-> NULL] : t \in NonJsonTexts}

-----------------------------------------------------------------------------
\* components/ChatBot.tsx

GREETING == <<"I have analyzed the video. Ask me anything about specific details, timestamps, or content ideas!">>
APOLOGY == <<"Sorry, I encountered an error responding to that.">>
NO_REPLY == <<"I couldn't generate a response.">>

Turn(r, t) == [role |-> r, text |-> t]

ChatInputs == { <<" ">>, <<"h", "i", " ">> }
ReplyTexts == { <<>>, <<"Sure.">> }

ChatOutcomes ==
    {[kind |-> "readError", err |-> ReadError, text |-> <<>>]}
    \cup {[kind |-> "gatewayError", err |-> e, text |-> <<>>] : e \in GatewayErrors}
    \cup {[kind |-> "response", err |-> NoErr, text |-> t] : t \in ReplyTexts}

\* chatWithVideo: resolve with the reply or reject
\*   return response.text || "I couldn't generate a response."
chatWithVideo(source, o) ==
    IF o.kind = "response"
    THEN [ok |-> TRUE, text |-> IF o.text # <<>> THEN o.text ELSE NO_REPLY, err |-> NoErr]
    ELSE [ok |-> FALSE, text |-> <<>>, err |-> o.err]

\* {state === AppState.READY && videoSource && analysis && ( ... <ChatBot/> ... )}
\* Revision 1 renders two ChatBot elements in that block, one for wide and one
\* for narrow windows, each with its own state; the model follows the one on
\* display.
ChatMountedIn(st, src, an) == st = READY /\ src # NULL /\ an # NULL

ChatMounted == ChatMountedIn(state, videoSource, analysis)

\* {state === AppState.ERROR && ( ... <p>{errorMsg}</p> ... )}: the only place
\* where errorMsg is rendered
displayedError == IF state = ERROR THEN errorMsg ELSE ""

-----------------------------------------------------------------------------
\* History: the handler that ran last, the view state it started in and its
\* argument
Op(name, from, arg) == [op |-> name, from |-> from, arg |-> arg]

\* a handler without an argument
NoArg == [none |-> TRUE]

-----------------------------------------------------------------------------
\* The requests the service functions build for ai.models.generateContent

\* fileToGenerativePart: { inlineData: { data, mimeType } } of the file
MediaPart(file) == [inlineData |-> [data |-> file, mimeType |-> "video"]]

\* a text part: the prompt of an analysis or of a chat turn, with the URL,
\* the history and the question that the template literal puts into it
TextPart(prompt, url, history, question) ==
    [text |-> [prompt |-> prompt, url |-> url, history |-> history, question |-> question]]

GOOGLE_SEARCH == "googleSearch"

\* no request: the handler returned before it called the service
NoRequest == [tools |-> {}, parts |-> <<>>]

\* analyzeVideoContent(file): contents { parts: [videoPart, { text: prompt }] }
analyzeVideoContentRequest(file) ==
    [tools |-> {}, parts |-> <<MediaPart(file), TextPart("analyze", <<>>, <<>>, <<>>)>>]

\* analyzeYouTubeVideo(url): contents { text: prompt }, tools [{ googleSearch: {} }]
analyzeYouTubeVideoRequest(url) ==
    [tools |-> {GOOGLE_SEARCH}, parts |-> <<TextPart("analyze", url, <<>>, <<>>)>>]

\* messages.map(m => ({ role: m.role, parts: [{ text: m.text }] }))
HistoryOf(log) ==
    [i \in 1..Len(log) |-> [role |-> log[i].role, parts |-> <<[text |-> log[i].text]>>]]

\* chatWithVideo that never asks for the search tool
chatWithVideoRequest_NoTools(source, history, message) ==
    IF source.type = "file"
    THEN [tools |-> {},
          parts |-> <<MediaPart(source.file), TextPart("chat", <<>>, history, message)>>]
    ELSE [tools |-> {},
          parts |-> <<TextPart("chat", source.url, history, message)>>]

\* chatWithVideo(source, history, message): the parts and the config
chatWithVideoRequest(source, history, message) ==
    IF source.type = "file"
    THEN [tools |-> {},
          parts |-> <<MediaPart(source.file), TextPart("chat", <<>>, history, message)>>]
    ELSE [tools |-> IF source.type = "youtube" THEN {GOOGLE_SEARCH} ELSE {},
          parts |-> <<TextPart("chat", source.url, history, message)>>]

\* if (!apiKey) return <ApiKeyModal onSave={setApiKey} />  (revision 3): the
\* rest of the page exists only once a key is held
KeyHeld == variant # 3 \/ apiKey # ""

InFlight == BagCardinality(pending)

\* the suspended handleSend calls of the ChatBot element on display
LiveInFlight == BagCardinality([x \in {y \in DOMAIN chatPending : y.live} |-> chatPending[x]])
ChatInFlight == BagCardinality(chatPending)

One(x) == SetToBag({x})

RECURSIVE SumOver(_, _)
SumOver(b, S) ==
    IF S = {} THEN 0
    ELSE LET x == CHOOSE y \in S : TRUE IN b[x] + SumOver(b, S \ {x})

\* the suspended handleSend calls once their ChatBot element is gone: the
\* history and the message of their closures are never read again
Orphaned(b) ==
    LET orphan(x) == [source |-> x.source, history |-> <<>>, message |-> <<>>, live |-> FALSE]
        D == {orphan(x) : x \in DOMAIN b} IN
    [r \in D |-> SumOver(b, {x \in DOMAIN b : orphan(x) = r})]

\* <video src={url}> of VideoPlayer is rendered: READY block, file source
FilePlayerIn(st, src, an) == ChatMountedIn(st, src, an) /\ src.type = "file"

NoBlobs == [live |-> 0, shown |-> "none"]

\* The blob URL of VideoPlayer over a step that leaves the view at st, src,
\* an.  useMemo calls URL.createObjectURL when the element is created, the
\* clean-up of useEffect calls URL.revokeObjectURL when it is removed.  Under
\* React.StrictMode a development build calls the function of useMemo twice
\* and keeps one result, and runs effect, clean-up, effect at creation: one
\* URL is never revoked and the one kept is revoked at once.
PlayerFrame(st, src, an) ==
    LET before == FilePlayerIn(state, videoSource, analysis)
        after == FilePlayerIn(st, src, an)
    IN IF ~before /\ after
       THEN /\ blobs.live < MaxBlobs
            /\ blobs' = [live |-> blobs.live + 1,
                         shown |-> IF strictDev THEN "revoked" ELSE "live"]
       ELSE IF before /\ ~after
       THEN blobs' = [live |-> IF blobs.shown = "live" THEN blobs.live - 1 ELSE blobs.live,
                      shown |-> "none"]
       ELSE UNCHANGED blobs

\* ChatFrame with a ChatBot that is hidden, not removed, outside READY: its
\* state and its suspended calls live on
ChatFrame_Hidden(st, src, an) ==
    IF ChatMountedIn(st, src, an) /\ messages = <<>>
    THEN /\ input' = <<>>
         /\ messages' = <<Turn("model", GREETING)>>
         /\ isLoading' = FALSE
         /\ UNCHANGED chatPending
    ELSE UNCHANGED chatVars

\* The ChatBot element exists exactly while the READY block is rendered.  Its
\* state is created at mount and discarded at unmount; a suspended handleSend
\* of a discarded element still runs, but its setState calls have no effect.
ChatFrame(st, src, an) ==
    IF ChatMountedIn(st, src, an)
    THEN IF ChatMounted
         THEN UNCHANGED chatVars
         ELSE /\ input' = <<>>
              /\ messages' = <<Turn("model", GREETING)>>
              /\ isLoading' = FALSE
              /\ UNCHANGED chatPending
    ELSE /\ input' = <<>>
         /\ messages' = <<>>
         /\ isLoading' = FALSE
         /\ chatPending' = Orphaned(chatPending)

\* useState of App and of ChatBot, nothing suspended, nothing said yet
InitRest ==
    /\ videoSource = NULL
    /\ state = IDLE
    /\ analysis = NULL
    /\ errorMsg = ""
    /\ pending = EmptyBag
    /\ alertMsg = ""
    /\ logged = NoErr
    /\ input = <<>>
    /\ messages = <<>>
    /\ isLoading = FALSE
    /\ chatPending = EmptyBag
    /\ playerCmds = <<>>
    /\ blobs = NoBlobs
    /\ lastOp = Op("init", IDLE, NoArg)

\* useState(() => process.env.API_KEY, unless absent or the placeholder)
initialKey(envKey) == IF envKey # "" /\ envKey # PLACEHOLDER_KEY THEN envKey ELSE ""

\* root.render(<React.StrictMode><App /></React.StrictMode>) ends revision 3:
\* its development build runs under StrictMode, its production build does
\* not.  The files of revisions 1 and 2 do not mount App.
StrictBuilds(v) == IF v = 3 THEN BOOLEAN ELSE {FALSE}

\* Revisions 1 and 2 keep no key in the component: the service reads
\* process.env.API_KEY at each call, and what the gateway makes of it is part
\* of the outcome of the call.  No handler of theirs reads the key, so it is
\* left out here; InitView carries it.
Init ==
    /\ variant \in Variants
    /\ \E envKey \in EnvKeys : apiKey = IF variant = 3 THEN initialKey(envKey) ELSE ""
    /\ decoded = NoDecoding
    /\ strictDev = FALSE
    /\ InitRest

\* ApiKeyModal: if(inputKey) onSave(inputKey)
saveApiKey(k) ==
    /\ ~KeyHeld
    /\ k # ""
    /\ apiKey' = k
    /\ alertMsg' = ""
    /\ logged' = NoErr
    /\ lastOp' = Op("saveApiKey", state, NoArg)
    /\ playerCmds' = <<>>
    /\ UNCHANGED <<decoded, strictDev, blobs>>
    /\ UNCHANGED <<variant, appVars, pending, chatVars>>

\* handleFileSelect up to its await; Hero is rendered only in IDLE
handleFileSelect(file) ==
    /\ KeyHeld
    /\ state = IDLE
    /\ InFlight < MaxInFlight
    /\ videoSource' = FileSource(file)
    /\ state' = ANALYZING
    /\ errorMsg' = ""
    /\ pending' = pending (+) One(FileSource(file))
    /\ alertMsg' = ""
    /\ logged' = NoErr
    /\ ChatFrame(ANALYZING, FileSource(file), analysis)
    /\ PlayerFrame(ANALYZING, FileSource(file), analysis)
    /\ lastOp' = Op("handleFileSelect", state, [request |-> analyzeVideoContentRequest(file)])
    /\ playerCmds' = <<>>
    /\ UNCHANGED <<decoded, strictDev>>
    /\ UNCHANGED <<variant, apiKey, analysis>>

\* handleYoutubeSubmit up to its return or its await
handleYoutubeSubmit(url) ==
    LET id == idOf[url] IN
    /\ KeyHeld
    /\ state = IDLE
    /\ IF id = NoId
       THEN /\ IF variant = 1
               THEN errorMsg' = "Invalid YouTube URL" /\ alertMsg' = ""
               ELSE alertMsg' = "Invalid YouTube URL" /\ UNCHANGED errorMsg
            /\ UNCHANGED <<videoSource, state, pending, chatVars, blobs>>
       ELSE /\ InFlight < MaxInFlight
            /\ videoSource' = YoutubeSource(url, id)
            /\ state' = ANALYZING
            /\ errorMsg' = ""
            /\ pending' = pending (+) One(YoutubeSource(url, id))
            /\ alertMsg' = ""
            /\ ChatFrame(ANALYZING, YoutubeSource(url, id), analysis)
            /\ PlayerFrame(ANALYZING, YoutubeSource(url, id), analysis)
    /\ logged' = NoErr
    /\ lastOp' = Op("handleYoutubeSubmit", state,
                     [url |-> url,
                      request |-> IF id = NoId THEN NoRequest ELSE analyzeYouTubeVideoRequest(url)])
    /\ playerCmds' = <<>>
    /\ UNCHANGED <<decoded, strictDev>>
    /\ UNCHANGED <<variant, apiKey, analysis>>

\* the gateway answered and response.text is empty or undefined
NoText(o) == o.kind = "response" /\ o.text = <<>>

\* the outcomes a call can have: only a call on a file source reads a file
OutcomesOf(source, all) ==
    {o \in all : o.kind = "readError" => source.type = "file"}

\* analysisResolved without setState(READY)
analysisResolved_NoReady(req, o) ==
    LET r == analyzeResult(variant, o) IN
    /\ BagIn(req, pending)
    /\ o \in OutcomesOf(req, ViewOutcomes)
    /\ r.ok
    /\ analysis' = r.value
    /\ pending' = pending (-) One(req)
    /\ alertMsg' = ""
    /\ logged' = NoErr
    /\ ChatFrame(state, videoSource, r.value)
    /\ PlayerFrame(state, videoSource, r.value)
    /\ lastOp' = Op("analysisResolved", state, [noText |-> NoText(o)])
    /\ playerCmds' = <<>>
    /\ UNCHANGED <<variant, apiKey, videoSource, state, errorMsg, decoded, strictDev>>

\* the try branch after the await: setAnalysis(result); setState(READY)
analysisResolved(req, o) ==
    LET r == analyzeResult(variant, o) IN
    /\ BagIn(req, pending)
    /\ o \in OutcomesOf(req, ViewOutcomes)
    /\ r.ok
    /\ analysis' = r.value
    /\ state' = READY
    /\ pending' = pending (-) One(req)
    /\ alertMsg' = ""
    /\ logged' = NoErr
    /\ ChatFrame(READY, videoSource, r.value)
    /\ PlayerFrame(READY, videoSource, r.value)
    /\ lastOp' = Op("analysisResolved", state, [noText |-> NoText(o)])
    /\ playerCmds' = <<>>
    /\ UNCHANGED <<decoded, strictDev>>
    /\ UNCHANGED <<variant, apiKey, videoSource, errorMsg>>

FILE_FALLBACK_1 == "Failed to analyze video. Please try again."
YOUTUBE_FALLBACK_1 == "Failed to analyze YouTube video. Gemini might not be able to access this specific video's transcripts."
FILE_FAILED == "Failed to analyze video. Ensure the file is not too large (>20MB) and your API key is valid."
YOUTUBE_FAILED == "Failed to analyze YouTube video. The AI might not have found sufficient data via search."

\* the text the catch block passes to setErrorMsg
failureText(v, type, err) ==
    IF v = 1
    THEN IF err.message # "" THEN err.message
         ELSE IF type = "file" THEN FILE_FALLBACK_1 ELSE YOUTUBE_FALLBACK_1
    ELSE IF type = "file" THEN FILE_FAILED ELSE YOUTUBE_FAILED

\* analysisRejected that issues the request again instead of giving up
analysisRejected_Retry(req, o) ==
    LET r == analyzeResult(variant, o) IN
    /\ BagIn(req, pending)
    /\ o \in OutcomesOf(req, ViewOutcomes)
    /\ ~r.ok
    /\ logged' = r.err
    /\ alertMsg' = ""
    /\ lastOp' = Op("analysisRejected", state, [noText |-> NoText(o)])
    /\ playerCmds' = <<>>
    /\ UNCHANGED <<variant, apiKey, appVars, pending, chatVars, decoded, strictDev, blobs>>

\* the catch branch after the await: console.error, setErrorMsg, setState(ERROR)
analysisRejected(req, o) ==
    LET r == analyzeResult(variant, o) IN
    /\ BagIn(req, pending)
    /\ o \in OutcomesOf(req, ViewOutcomes)
    /\ ~r.ok
    /\ logged' = r.err
    /\ errorMsg' = failureText(variant, req.type, r.err)
    /\ state' = ERROR
    /\ pending' = pending (-) One(req)
    /\ alertMsg' = ""
    /\ ChatFrame(ERROR, videoSource, analysis)
    /\ PlayerFrame(ERROR, videoSource, analysis)
    /\ lastOp' = Op("analysisRejected", state, [noText |-> NoText(o)])
    /\ playerCmds' = <<>>
    /\ UNCHANGED <<decoded, strictDev>>
    /\ UNCHANGED <<variant, apiKey, videoSource, analysis>>

\* handleReset: the logo of the navigation bar carries it in every view state
handleReset ==
    /\ KeyHeld
    /\ videoSource' = NULL
    /\ analysis' = NULL
    /\ state' = IDLE
    /\ errorMsg' = IF variant = 1 THEN "" ELSE errorMsg
    /\ alertMsg' = ""
    /\ logged' = NoErr
    /\ ChatFrame(IDLE, NULL, NULL)
    /\ PlayerFrame(IDLE, NULL, NULL)
    /\ lastOp' = Op("handleReset", state, NoArg)
    /\ playerCmds' = <<>>
    /\ UNCHANGED <<decoded, strictDev>>
    /\ UNCHANGED <<variant, apiKey, pending>>

\* onChange={(e) => setInput(e.target.value)}
setInput(text) ==
    /\ KeyHeld
    /\ ChatMounted
    /\ input' = text
    /\ alertMsg' = ""
    /\ logged' = NoErr
    /\ lastOp' = Op("setInput", state, NoArg)
    /\ playerCmds' = <<>>
    /\ UNCHANGED <<decoded, strictDev, blobs>>
    /\ UNCHANGED <<variant, apiKey, appVars, pending, messages, isLoading, chatPending>>

\* handleSend with setMessages([userTurn]) for the functional update
handleSend_ReplaceLog ==
    /\ KeyHeld
    /\ ChatMounted
    /\ IF Trim(input) = <<>> \/ isLoading \/ videoSource = NULL
       THEN UNCHANGED chatVars
       ELSE /\ Len(messages) + 2 <= MaxTurns
            /\ ChatInFlight < MaxChatInFlight
            /\ input' = <<>>
            /\ messages' = <<Turn("user", input)>>
            /\ isLoading' = TRUE
            /\ chatPending' = chatPending (+)
                   One([source |-> videoSource, history |-> messages,
                        message |-> input, live |-> TRUE])
    /\ alertMsg' = ""
    /\ logged' = NoErr
    /\ lastOp' = Op("handleSend", state,
                     [input |-> input, isLoading |-> isLoading,
                      request |-> IF Trim(input) = <<>> \/ isLoading \/ videoSource = NULL
                                  THEN NoRequest
                                  ELSE chatWithVideoRequest(videoSource, HistoryOf(messages), input)])
    /\ playerCmds' = <<>>
    /\ UNCHANGED <<variant, apiKey, appVars, pending, decoded, strictDev, blobs>>

\* handleSend without the test of isLoading
handleSend_NoLoadingGuard ==
    /\ KeyHeld
    /\ ChatMounted
    /\ IF Trim(input) = <<>> \/ videoSource = NULL
       THEN UNCHANGED chatVars
       ELSE /\ Len(messages) + 2 <= MaxTurns
            /\ ChatInFlight < MaxChatInFlight
            /\ input' = <<>>
            /\ messages' = Append(messages, Turn("user", input))
            /\ isLoading' = TRUE
            /\ chatPending' = chatPending (+)
                   One([source |-> videoSource, history |-> messages,
                        message |-> input, live |-> TRUE])
    /\ alertMsg' = ""
    /\ logged' = NoErr
    /\ lastOp' = Op("handleSend", state,
                     [input |-> input, isLoading |-> isLoading,
                      request |-> IF Trim(input) = <<>> \/ videoSource = NULL
                                  THEN NoRequest
                                  ELSE chatWithVideoRequest(videoSource, HistoryOf(messages), input)])
    /\ playerCmds' = <<>>
    /\ UNCHANGED <<variant, apiKey, appVars, pending, decoded, strictDev, blobs>>

\* handleSend that builds the history from the log with the new turn in it
handleSend_HistoryWithMessage ==
    /\ KeyHeld
    /\ ChatMounted
    /\ IF Trim(input) = <<>> \/ isLoading \/ videoSource = NULL
       THEN UNCHANGED chatVars
       ELSE /\ Len(messages) + 2 <= MaxTurns
            /\ ChatInFlight < MaxChatInFlight
            /\ input' = <<>>
            /\ messages' = Append(messages, Turn("user", input))
            /\ isLoading' = TRUE
            /\ chatPending' = chatPending (+)
                   One([source |-> videoSource, history |-> messages,
                        message |-> input, live |-> TRUE])
    /\ alertMsg' = ""
    /\ logged' = NoErr
    /\ lastOp' = Op("handleSend", state,
                     [input |-> input, isLoading |-> isLoading,
                      request |-> IF Trim(input) = <<>> \/ isLoading \/ videoSource = NULL
                                  THEN NoRequest
                                  ELSE chatWithVideoRequest(videoSource,
                                           HistoryOf(Append(messages, Turn("user", input))), input)])
    /\ playerCmds' = <<>>
    /\ UNCHANGED <<variant, apiKey, appVars, pending, decoded, strictDev, blobs>>

\* handleSend up to its return or its await
handleSend ==
    /\ KeyHeld
    /\ ChatMounted
    /\ IF Trim(input) = <<>> \/ isLoading \/ videoSource = NULL
       THEN UNCHANGED chatVars
       ELSE /\ Len(messages) + 2 <= MaxTurns
            /\ ChatInFlight < MaxChatInFlight
            /\ input' = <<>>
            /\ messages' = Append(messages, Turn("user", input))
            /\ isLoading' = TRUE
            /\ chatPending' = chatPending (+)
                   One([source |-> videoSource, history |-> messages,
                        message |-> input, live |-> TRUE])
    /\ alertMsg' = ""
    /\ logged' = NoErr
    /\ lastOp' = Op("handleSend", state,
                     [input |-> input, isLoading |-> isLoading,
                      request |-> IF Trim(input) = <<>> \/ isLoading \/ videoSource = NULL
                                  THEN NoRequest
                                  ELSE chatWithVideoRequest(videoSource, HistoryOf(messages), input)])
    /\ playerCmds' = <<>>
    /\ UNCHANGED <<decoded, strictDev, blobs>>
    /\ UNCHANGED <<variant, apiKey, appVars, pending>>

\* chatResolved with setMessages([...messages, reply]): the log of the closure
\* instead of the functional update
chatResolved_StaleClosure(req, o) ==
    LET r == chatWithVideo(req.source, o) IN
    /\ BagIn(req, chatPending)
    /\ o \in OutcomesOf(req.source, ChatOutcomes)
    /\ r.ok
    /\ IF req.live
       THEN /\ messages' = Append(req.history, Turn("model", r.text))
            /\ isLoading' = FALSE
       ELSE UNCHANGED <<messages, isLoading>>
    /\ chatPending' = chatPending (-) One(req)
    /\ alertMsg' = ""
    /\ logged' = NoErr
    /\ lastOp' = Op("chatResolved", state, [req |-> req, reply |-> r.text,
                                          response |-> o.text, noText |-> NoText(o)])
    /\ playerCmds' = <<>>
    /\ UNCHANGED <<decoded, strictDev, blobs>>
    /\ UNCHANGED <<variant, apiKey, appVars, pending, input>>

\* the try branch of handleSend after the await, then finally
chatResolved(req, o) ==
    LET r == chatWithVideo(req.source, o) IN
    /\ BagIn(req, chatPending)
    /\ o \in OutcomesOf(req.source, ChatOutcomes)
    /\ r.ok
    /\ IF req.live
       THEN /\ messages' = Append(messages, Turn("model", r.text))
            /\ isLoading' = FALSE
       ELSE UNCHANGED <<messages, isLoading>>
    /\ chatPending' = chatPending (-) One(req)
    /\ alertMsg' = ""
    /\ logged' = NoErr
    /\ lastOp' = Op("chatResolved", state, [req |-> req, reply |-> r.text,
                                          response |-> o.text, noText |-> NoText(o)])
    /\ playerCmds' = <<>>
    /\ UNCHANGED <<decoded, strictDev, blobs>>
    /\ UNCHANGED <<variant, apiKey, appVars, pending, input>>

\* chatRejected with the text of the error as the model turn
chatRejected_RawError(req, o) ==
    LET r == chatWithVideo(req.source, o) IN
    /\ BagIn(req, chatPending)
    /\ o \in OutcomesOf(req.source, ChatOutcomes)
    /\ ~r.ok
    /\ logged' = r.err
    /\ IF req.live
       THEN /\ messages' = Append(messages, Turn("model", <<r.err.message>>))
            /\ isLoading' = FALSE
       ELSE UNCHANGED <<messages, isLoading>>
    /\ chatPending' = chatPending (-) One(req)
    /\ alertMsg' = ""
    /\ lastOp' = Op("chatRejected", state, [req |-> req, reply |-> APOLOGY,
                                          response |-> o.text, noText |-> NoText(o)])
    /\ playerCmds' = <<>>
    /\ UNCHANGED <<decoded, strictDev, blobs>>
    /\ UNCHANGED <<variant, apiKey, appVars, pending, input>>

\* chatRejected with a catch block that only logs
chatRejected_Silent(req, o) ==
    LET r == chatWithVideo(req.source, o) IN
    /\ BagIn(req, chatPending)
    /\ o \in OutcomesOf(req.source, ChatOutcomes)
    /\ ~r.ok
    /\ logged' = r.err
    /\ IF req.live
       THEN isLoading' = FALSE /\ UNCHANGED messages
       ELSE UNCHANGED <<messages, isLoading>>
    /\ chatPending' = chatPending (-) One(req)
    /\ alertMsg' = ""
    /\ lastOp' = Op("chatRejected", state, [req |-> req, reply |-> APOLOGY,
                                          response |-> o.text, noText |-> NoText(o)])
    /\ playerCmds' = <<>>
    /\ UNCHANGED <<variant, apiKey, appVars, pending, input, decoded, strictDev, blobs>>

\* chatRejected that leaves the loading flag set
chatRejected_NoFinally(req, o) ==
    LET r == chatWithVideo(req.source, o) IN
    /\ BagIn(req, chatPending)
    /\ o \in OutcomesOf(req.source, ChatOutcomes)
    /\ ~r.ok
    /\ logged' = r.err
    /\ IF req.live
       THEN messages' = Append(messages, Turn("model", APOLOGY)) /\ UNCHANGED isLoading
       ELSE UNCHANGED <<messages, isLoading>>
    /\ chatPending' = chatPending (-) One(req)
    /\ alertMsg' = ""
    /\ lastOp' = Op("chatRejected", state, [req |-> req, reply |-> APOLOGY,
                                          response |-> o.text, noText |-> NoText(o)])
    /\ playerCmds' = <<>>
    /\ UNCHANGED <<variant, apiKey, appVars, pending, input, decoded, strictDev, blobs>>

\* chatRejected that reports the failure as App reports a failed analysis
chatRejected_Fatal(req, o) ==
    LET r == chatWithVideo(req.source, o) IN
    /\ BagIn(req, chatPending)
    /\ o \in OutcomesOf(req.source, ChatOutcomes)
    /\ ~r.ok
    /\ logged' = r.err
    /\ errorMsg' = FILE_FAILED
    /\ state' = ERROR
    /\ PlayerFrame(ERROR, videoSource, analysis)
    /\ input' = <<>>
    /\ messages' = <<>>
    /\ isLoading' = FALSE
    /\ chatPending' = Orphaned(chatPending (-) One(req))
    /\ alertMsg' = ""
    /\ lastOp' = Op("chatRejected", state, [req |-> req, reply |-> APOLOGY,
                                          response |-> o.text, noText |-> NoText(o)])
    /\ playerCmds' = <<>>
    /\ UNCHANGED <<variant, apiKey, videoSource, analysis, pending, decoded, strictDev>>

\* the catch branch of handleSend after the await, then finally
chatRejected(req, o) ==
    LET r == chatWithVideo(req.source, o) IN
    /\ BagIn(req, chatPending)
    /\ o \in OutcomesOf(req.source, ChatOutcomes)
    /\ ~r.ok
    /\ logged' = r.err
    /\ IF req.live
       THEN /\ messages' = Append(messages, Turn("model", APOLOGY))
            /\ isLoading' = FALSE
       ELSE UNCHANGED <<messages, isLoading>>
    /\ chatPending' = chatPending (-) One(req)
    /\ alertMsg' = ""
    /\ lastOp' = Op("chatRejected", state, [req |-> req, reply |-> APOLOGY,
                                          response |-> o.text, noText |-> NoText(o)])
    /\ playerCmds' = <<>>
    /\ UNCHANGED <<decoded, strictDev, blobs>>
    /\ UNCHANGED <<variant, apiKey, appVars, pending, input>>

-----------------------------------------------------------------------------
\* Preview Clip: AnalysisDashboard -> App.handleSeek -> VideoPlayer.seekTo

Digits == {"0", "1", "2", "3", "4", "5", "6", "7", "8", "9"}

\* clip.startTime as the dashboard passes it on: MM:SS, and one H:MM:SS
Minutes == { <<"0", "0">>, <<"0", "1">>, <<"9", "9">> }
Seconds == { <<"0", "0">>, <<"0", "5">>, <<"3", "0">> }
TimeHour == <<"1", ":", "0", "2", ":", "0", "3">>
TimeStrings == {m \o <<":">> \o sec : m \in Minutes, sec \in Seconds} \cup {TimeHour}

\* timeStr.split(':')
RECURSIVE Split(_)
Split(str) ==
    IF \E k \in 1..Len(str) : str[k] = ":"
    THEN LET k == CHOOSE i \in 1..Len(str) : str[i] = ":" /\ \A j \in 1..(i - 1) : str[j] # ":"
         IN <<SubSeq(str, 1, k - 1)>> \o Split(SubSeq(str, k + 1, Len(str)))
    ELSE <<str>>

\* Number(part) for a string of decimal digits; Number('') is 0
RECURSIVE Number(_)
Number(part) ==
    IF part = <<>> THEN 0
    ELSE 10 * Number(SubSeq(part, 1, Len(part) - 1))
         + (CHOOSE d \in 0..9 : ToString(d) = part[Len(part)])

\* handleSeek with the two parts taken in the wrong order
timeInSeconds_Swapped(timeStr) ==
    LET parts == Split(timeStr)
        min == Number(parts[2])
        sec == Number(parts[1])
    IN min * 60 + sec

\* const [min, sec] = timeStr.split(':').map(Number); min * 60 + sec
timeInSeconds(timeStr) ==
    LET parts == Split(timeStr)
        min == Number(parts[1])
        sec == Number(parts[2])
    IN min * 60 + sec

\* JSON.stringify of a message
Stringify(msg) == [json |-> msg]

\* seekTo with play before the position is set
seekTo_PlayFirst(source, t) ==
    IF source.type = "file"
    THEN << [target |-> "video", op |-> "play", data |-> NoArg],
            [target |-> "video", op |-> "currentTime", data |-> [value |-> t]] >>
    ELSE << [target |-> "iframe", op |-> "postMessage",
             data |-> Stringify([event |-> "command", func |-> "playVideo", args |-> <<>>])],
            [target |-> "iframe", op |-> "postMessage",
             data |-> Stringify([event |-> "command", func |-> "seekTo", args |-> <<t, TRUE>>])] >>

\* VideoPlayer.seekTo: videoRef and iframeRef are set while the element of
\* the source kind is rendered
seekTo(source, t) ==
    IF source.type = "file"
    THEN << [target |-> "video", op |-> "currentTime", data |-> [value |-> t]],
            [target |-> "video", op |-> "play", data |-> NoArg] >>
    ELSE IF source.type = "youtube"
    THEN << [target |-> "iframe", op |-> "postMessage",
             data |-> Stringify([event |-> "command", func |-> "seekTo", args |-> <<t, TRUE>>])],
            [target |-> "iframe", op |-> "postMessage",
             data |-> Stringify([event |-> "command", func |-> "playVideo", args |-> <<>>])] >>
    ELSE <<>>

\* <VideoPlayer ref={playerRef}/> and <AnalysisDashboard onSeek={handleSeek}/>
\* stand in the READY block
PlayerMounted == ChatMountedIn(state, videoSource, analysis)

\* handleSeek, from the Preview Clip button of a clip
handleSeek(timeStr) ==
    /\ KeyHeld
    /\ PlayerMounted
    /\ playerCmds' = seekTo(videoSource, timeInSeconds(timeStr))
    /\ alertMsg' = ""
    /\ logged' = NoErr
    /\ lastOp' = Op("handleSeek", state, [timeStr |-> timeStr])
    /\ UNCHANGED <<variant, apiKey, appVars, pending, chatVars, decoded, strictDev, blobs>>

-----------------------------------------------------------------------------
Next ==
    \/ \E k \in TypedKeys : saveApiKey(k)
    \/ \E file \in Files : handleFileSelect(file)
    \/ \E url \in Urls : handleYoutubeSubmit(url)
    \/ \E req \in BagToSet(pending), o \in Outcomes : analysisResolved(req, o)
    \/ \E req \in BagToSet(pending), o \in Outcomes : analysisRejected(req, o)
    \/ handleReset
    \/ \E text \in ChatInputs : setInput(text)
    \/ handleSend
    \/ \E req \in BagToSet(chatPending), o \in ChatOutcomes : chatResolved(req, o)
    \/ \E req \in BagToSet(chatPending), o \in ChatOutcomes : chatRejected(req, o)

Spec == Init /\ [][Next]_vars

-----------------------------------------------------------------------------
\* The page without the conversation: the key, the analysis and the player.
\* Here apiKey is process.env.API_KEY in revisions 1 and 2.
InitView ==
    /\ variant \in Variants
    /\ \E envKey \in EnvKeys : apiKey = IF variant = 3 THEN initialKey(envKey) ELSE envKey
    /\ decoded = NoDecoding
    /\ strictDev \in StrictBuilds(variant)
    /\ InitRest

\* a suspended analysis call runs on
Settle ==
    \E req \in BagToSet(pending), o \in ViewOutcomes :
        analysisResolved(req, o) \/ analysisRejected(req, o)

NextView ==
    \/ \E k \in TypedKeys : saveApiKey(k)
    \/ \E file \in Files : handleFileSelect(file)
    \/ \E url \in Urls : handleYoutubeSubmit(url)
    \/ \E req \in BagToSet(pending), o \in ViewOutcomes : analysisResolved(req, o)
    \/ \E req \in BagToSet(pending), o \in ViewOutcomes : analysisRejected(req, o)
    \/ handleReset
    \/ \E timeStr \in TimeStrings : handleSeek(timeStr)

SpecView == InitView /\ [][NextView]_vars

\* every promise awaited by a handler settles: the FileReader ends with
\* onloadend or onerror, the request with a response or an error
FairView == SpecView /\ WF_vars(Settle)

-----------------------------------------------------------------------------
\* The decoding of one response text
InitDecode ==
    /\ variant \in Variants
    /\ \E envKey \in EnvKeys : apiKey = IF variant = 3 THEN initialKey(envKey) ELSE ""
    /\ decoded \in DecodeInputs
    /\ strictDev = FALSE
    /\ InitRest

\* const text = response.text; ... return safeJsonParse(text)
decodeText ==
    /\ ~decoded.done
    /\ decoded.text # <<>>
    /\ decoded' = [decoded EXCEPT !.done = TRUE,
                                  !.result = decodeResponse(variant, decoded.text)]
    /\ lastOp' = Op("decodeText", state, NoArg)
    /\ UNCHANGED <<variant, apiKey, appVars, pending, alertMsg, logged, chatVars, playerCmds,
                   strictDev, blobs>>

NextDecode == decodeText

SpecDecode == InitDecode /\ [][NextDecode]_vars

-----------------------------------------------------------------------------
\* Properties

\* the last step was the handler named
Ran(name) == lastOp.op = name

\* C1: at most one analysis request is in flight in every reachable state.
\* Fails: the logo runs handleReset while ANALYZING, Hero comes back and a
\* second request is issued while the first is still suspended.
C1_OneAnalysisInFlight == InFlight <= 1

\* the changes of view state the specification lists, with their causes
ListedTransition(from, to, op) ==
    \/ from = IDLE /\ to = ANALYZING /\ op \in {"handleFileSelect", "handleYoutubeSubmit"}
    \/ from = ANALYZING /\ to = READY /\ op = "analysisResolved"
    \/ from = ANALYZING /\ to = ERROR /\ op = "analysisRejected"
    \/ from \in {READY, ERROR} /\ to = IDLE /\ op = "handleReset"

\* C2: the view state changes only along idle -> analyzing -> ready | error
\* and ready | error -> idle by reset.  Fails: reset leaves ANALYZING, and a
\* request abandoned that way later moves IDLE, READY or ERROR.
C2_OnlyListedTransitions ==
    [][state' # state => ListedTransition(state, state', lastOp'.op)]_vars

\* C3: after a successful analysis the view is READY with an analysis stored
\* and the error text empty.  Fails: the error text may have been set since
\* the request was issued.
C3_SuccessLandsReady ==
    Ran("analysisResolved") => state = READY /\ analysis # NULL /\ errorMsg = ""

\* C4: after a failed analysis the view is ERROR with a non-empty message, and
\* no analysis is stored in any ERROR state.  Fails: the catch block does not
\* clear the analysis an earlier request stored.
C4_FailureLandsError ==
    /\ Ran("analysisRejected") => state = ERROR /\ errorMsg # ""
    /\ state = ERROR => analysis = NULL

\* C5: a reset in READY or ERROR yields IDLE with source, analysis and error
\* text cleared.  Fails: revisions 2 and 3 leave errorMsg as it was.
C5_ResetClearsAll ==
    (Ran("handleReset") /\ lastOp.from \in {READY, ERROR})
        => /\ state = IDLE
           /\ videoSource = NULL
           /\ analysis = NULL
           /\ errorMsg = ""

\* the user has a message before the eyes: an alert, or the error paragraph
Notified == alertMsg # "" \/ displayedError # ""

\* C6: a URL without an identifier is refused: the view stays IDLE, no source
\* is stored, no request is issued and the user is notified.  Fails:
\* revision 1 stores the notice in errorMsg, which IDLE does not render.
C6_RejectedUrlRefused ==
    [][(lastOp'.op = "handleYoutubeSubmit" /\ extractYoutubeId(lastOp'.arg.url) = NoId)
         => /\ state' = IDLE
            /\ videoSource' = NULL
            /\ pending' = pending
            /\ Notified']_vars

\* the markers as the claim lists them
ClaimMarkers ==
    << <<"y", "o", "u", "t", "u", ".", "b", "e", "/">>,
       <<"/", "v", "/">>,
       <<"/", "u", "/", "<w>", "/">>,
       <<"/", "e", "m", "b", "e", "d", "/">>,
       <<"?", "v", "=">>,
       <<"&", "v", "=">> >>

\* the text from position s up to the next # & ? or the end has 11 characters
ElevenAt(url, s) ==
    /\ s + 10 <= Len(url)
    /\ \A k \in s..(s + 10) : url[k] \notin IdStop
    /\ (s + 11 <= Len(url) => url[s + 11] \in IdStop)

\* the identifiers of 11 characters that follow a marker of ms somewhere
IdsAfter(url, ms) ==
    {SubSeq(url, p + Len(ms[a]), p + Len(ms[a]) + 10) :
        <<p, a>> \in {pa \in (1..Len(url)) \X (1..Len(ms)) :
                        /\ MarkerAt(url, pa[1], ms[pa[2]])
                        /\ ElevenAt(url, pa[1] + Len(ms[pa[2]]))}}

\* the identifier of 11 characters that follows the last marker of the
\* regular expression, if there is one
IdsAfterLast(url) ==
    {SubSeq(url, p + Len(Markers[a]), p + Len(Markers[a]) + 10) :
        <<p, a>> \in {pa \in (1..Len(url)) \X (1..Len(Markers)) :
                        /\ MarkerAt(url, pa[1], Markers[pa[2]])
                        /\ \A q \in (pa[1] + 1)..Len(url), b \in 1..Len(Markers) :
                              ~MarkerAt(url, q, Markers[b])
                        /\ ElevenAt(url, pa[1] + Len(Markers[pa[2]]))}}

\* the last step, a URL submission, moved the view to ANALYZING
UrlAccepted == state = ANALYZING /\ videoSource.type = "youtube" /\ videoSource.url = lastOp.arg.url

\* C7 as stated: a submission is accepted exactly when 11 characters follow
\* one of youtu.be/, /v/, /u/<char>/, /embed/, ?v=, &v=.
C7_AcceptedIffClaimMarker ==
    Ran("handleYoutubeSubmit") =>
        /\ UrlAccepted <=> IdsAfter(lastOp.arg.url, ClaimMarkers) # {}
        /\ UrlAccepted => videoSource.id \in IdsAfter(lastOp.arg.url, ClaimMarkers)

\* C7 amended: a submission is accepted exactly when 11 characters stand
\* between the last occurrence of a marker of the regular expression (youtu,
\* any character, be/; v/; u/<word character>/; embed/; watch?v=; &v=) and the
\* next # & ? or the end; the source stored has these characters as its id;
\* every stored URL source has an id of 11 characters; the two example URLs
\* give dQw4w9WgXcQ and https://example.com/not-a-video is refused.
C7_AcceptedIffLastMarker ==
    /\ videoSource.type = "youtube" => Len(videoSource.id) = 11
    /\ Ran("handleYoutubeSubmit") =>
          /\ UrlAccepted <=> IdsAfterLast(lastOp.arg.url) # {}
          /\ UrlAccepted => IdsAfterLast(lastOp.arg.url) = {videoSource.id}
          /\ ~UrlAccepted => state = IDLE /\ videoSource = NULL
          /\ lastOp.arg.url \in {UrlWatch, UrlShort} => UrlAccepted /\ videoSource.id = IdRick
          /\ lastOp.arg.url = UrlNotVideo => ~UrlAccepted

C7_Witness ==
    /\ Ran("handleYoutubeSubmit")
    /\ lastOp.arg.url = UrlShort
    /\ UrlAccepted
    /\ videoSource.id = IdRick

\* C8: the text of the error that made an analysis fail is only logged, it is
\* never the text stored for display.  Fails: revision 1 stores err.message.
C8_RawErrorNotStored ==
    Ran("analysisRejected") => errorMsg # logged.message

\* the last step was a handleSend that passed its guard
SendAccepted ==
    /\ Ran("handleSend")
    /\ Trim(lastOp.arg.input) # <<>>
    /\ ~lastOp.arg.isLoading

\* C9: a send puts the user turn with the text sent at the end of the log, and
\* when its request succeeds the log is the log before the send, then that
\* user turn, then one model turn with the reply.
C9_SendThenReply ==
    /\ SendAccepted =>
          /\ Len(messages) >= 2
          /\ messages[Len(messages)] = [role |-> "user", text |-> lastOp.arg.input]
    /\ (Ran("chatResolved") /\ lastOp.arg.req.live) =>
          /\ Len(messages) = Len(lastOp.arg.req.history) + 2
          /\ messages = lastOp.arg.req.history
                          \o << [role |-> "user", text |-> lastOp.arg.req.message],
                                [role |-> "model", text |-> lastOp.arg.reply] >>
          /\ lastOp.arg.reply # <<>>
          /\ lastOp.arg.response # <<>> => lastOp.arg.reply = lastOp.arg.response

C9_Witness ==
    /\ Ran("chatResolved")
    /\ lastOp.arg.req.live
    /\ Len(messages) = 5
    /\ messages[4].text = <<"h", "i", " ">>
    /\ messages[5] = [role |-> "model", text |-> <<"Sure.">>]

\* C10: when the request of a send fails the log is the log before the send,
\* then the user turn, then one model turn with the fixed apology.
C10_SendThenApology ==
    (Ran("chatRejected") /\ lastOp.arg.req.live) =>
        /\ Len(messages) = Len(lastOp.arg.req.history) + 2
        /\ messages = lastOp.arg.req.history
                        \o << [role |-> "user", text |-> lastOp.arg.req.message],
                              [role |-> "model",
                               text |-> <<"Sorry, I encountered an error responding to that.">>] >>

C10_Witness ==
    /\ Ran("chatRejected")
    /\ lastOp.arg.req.live
    /\ Len(messages) = 3
    /\ messages[2].role = "user"
    /\ messages[3].text = APOLOGY

\* the ChatBot element is rendered before the step and after it: by
\* ChatFrame it is then the same element, with the same conversation
SameConversation == ChatMounted /\ ChatMounted'

\* C11: within a conversation the log only grows at its end: in every step
\* the log before is a prefix of the log after.
C11_LogAppendOnly ==
    [][SameConversation =>
          /\ Len(messages') >= Len(messages)
          /\ SubSeq(messages', 1, Len(messages)) = messages]_vars

C11_Witness ==
    /\ Ran("chatResolved")
    /\ lastOp.arg.req.live
    /\ Len(messages) = 5
    /\ messages[3] = [role |-> "model", text |-> APOLOGY]
    /\ messages[5].role = "model"

ChatOps == {"handleSend", "chatResolved", "chatRejected"}

\* C12: a chat send, its reply and its failure leave the view state, the
\* source, the analysis and the error text as they were.
C12_ChatLeavesViewAlone ==
    [][lastOp'.op \in ChatOps =>
          /\ state' = state
          /\ videoSource' = videoSource
          /\ analysis' = analysis
          /\ errorMsg' = errorMsg]_vars

C12_Witness ==
    /\ Ran("chatRejected")
    /\ lastOp.arg.req.live
    /\ lastOp.from = READY
    /\ state = READY
    /\ analysis # NULL
    /\ messages[Len(messages)].text = APOLOGY

AnalysisSettled == Ran("analysisResolved") \/ Ran("analysisRejected")
ChatSettled == Ran("chatResolved") \/ Ran("chatRejected")

\* C13 as stated: every call whose response has no text fails, a chat turn
\* included.
C13_NoTextAlwaysFails ==
    /\ (AnalysisSettled /\ lastOp.arg.noText) => Ran("analysisRejected") /\ state = ERROR
    /\ (ChatSettled /\ lastOp.arg.noText) => Ran("chatRejected")

\* C13 amended: an analysis call whose response has no text fails with the
\* error "No response from Gemini" and puts the view in ERROR with a message,
\* as a gateway error does; a chat turn whose response has no text does not
\* fail: it resolves with the reply "I couldn't generate a response.", which
\* becomes the model turn.
C13_NoTextFailsAnalysisOnly ==
    /\ (AnalysisSettled /\ lastOp.arg.noText) =>
          /\ Ran("analysisRejected")
          /\ state = ERROR
          /\ errorMsg # ""
          /\ logged = [name |-> "Error", message |-> "No response from Gemini"]
    /\ (Ran("analysisRejected") /\ logged \in GatewayErrors) =>
          /\ state = ERROR
          /\ errorMsg # ""
    /\ (ChatSettled /\ lastOp.arg.noText) =>
          /\ Ran("chatResolved")
          /\ logged = NoErr
          /\ lastOp.arg.reply = <<"I couldn't generate a response.">>
          /\ lastOp.arg.req.live =>
                messages[Len(messages)] = [role |-> "model", text |-> lastOp.arg.reply]

C13_Witness ==
    /\ Ran("chatResolved")
    /\ lastOp.arg.noText
    /\ lastOp.arg.req.live
    /\ messages[Len(messages)].text = NO_REPLY

\* C14: a document of the VideoAnalysis shape, plain or in a fenced block,
\* decodes to that document.  Fails: revision 3 parses the text as it is, so
\* a fenced block is a syntax error; revisions 1 and 2 delete the fence
\* markers everywhere, those inside a string value too.
C14_DecodeRoundTrip ==
    (decoded.done /\ decoded.doc # NULL) =>
        /\ decoded.result.ok
        /\ decoded.result.value = decoded.doc

RECURSIVE Join(_)
Join(tokens) == IF tokens = <<>> THEN "" ELSE Head(tokens) \o Join(Tail(tokens))

\* the message of the error ends with the raw text
ErrorCarries(err, text) ==
    \E lead \in {"", "Failed to parse AI response. ", "Failed to parse AI response: "} :
        err.message = lead \o Join(text)

\* C15: a text that is no JSON gives an error carrying the raw text, never a
\* result.  Fails: safeJsonParse throws an error with a fixed message and
\* hands the raw text to console.error only; revision 3 throws the
\* SyntaxError of JSON.parse and the raw text goes nowhere.
C15_DecodeErrorCarriesText ==
    (decoded.done /\ decoded.doc = NULL) =>
        /\ ~decoded.result.ok
        /\ decoded.result.value = NULL
        /\ ErrorCarries(decoded.result.err, decoded.text)

\* MM:SS
ValidMMSS(timeStr) ==
    /\ Len(timeStr) = 5
    /\ timeStr[3] = ":"
    /\ \A k \in {1, 2, 4, 5} : timeStr[k] \in Digits

DigitValue(c) == CHOOSE d \in 0..9 : ToString(d) = c

\* the offset the player was given by the last step
SeekOffset ==
    IF playerCmds[1].target = "video"
    THEN playerCmds[1].data.value
    ELSE playerCmds[1].data.json.args[1]

\* C16: for a valid MM:SS string the offset given to the player is
\* minutes * 60 + seconds, 01:30 gives 90 and 00:05 gives 5; a seek leaves
\* the view state, the source and the analysis as they were.
C16_SeekOffset ==
    /\ [](Ran("handleSeek") /\ ValidMMSS(lastOp.arg.timeStr) =>
            /\ playerCmds # <<>>
            /\ SeekOffset = (10 * DigitValue(lastOp.arg.timeStr[1]) + DigitValue(lastOp.arg.timeStr[2])) * 60
                              + 10 * DigitValue(lastOp.arg.timeStr[4]) + DigitValue(lastOp.arg.timeStr[5])
            /\ lastOp.arg.timeStr = <<"0", "1", ":", "3", "0">> => SeekOffset = 90
            /\ lastOp.arg.timeStr = <<"0", "0", ":", "0", "5">> => SeekOffset = 5)
    /\ [][lastOp'.op = "handleSeek" =>
            /\ state' = state
            /\ videoSource' = videoSource
            /\ analysis' = analysis]_vars

C16_Witness ==
    /\ Ran("handleSeek")
    /\ lastOp.arg.timeStr = <<"0", "1", ":", "3", "0">>
    /\ SeekOffset = 90
    /\ state = READY

\* C17: a seek tells the backend of the current source kind, and no other,
\* to go to the offset and then to play: the iframe of a URL source gets the
\* message {event: command, func: seekTo, args: [offset, true]} and then
\* {event: command, func: playVideo, args: []}; the video element of a file
\* source gets currentTime = offset and then play().
C17_SeekThenPlay ==
    Ran("handleSeek") =>
        LET t == timeInSeconds(lastOp.arg.timeStr) IN
        /\ Len(playerCmds) = 2
        /\ videoSource.type = "youtube" =>
              /\ \A k \in 1..2 : playerCmds[k].target = "iframe" /\ playerCmds[k].op = "postMessage"
              /\ playerCmds[1].data.json = [event |-> "command", func |-> "seekTo", args |-> <<t, TRUE>>]
              /\ playerCmds[2].data.json = [event |-> "command", func |-> "playVideo", args |-> <<>>]
        /\ videoSource.type = "file" =>
              /\ \A k \in 1..2 : playerCmds[k].target = "video"
              /\ playerCmds[1].op = "currentTime" /\ playerCmds[1].data = [value |-> t]
              /\ playerCmds[2].op = "play"

C17_Witness ==
    /\ Ran("handleSeek")
    /\ videoSource.type = "youtube"
    /\ Len(playerCmds) = 2
    /\ playerCmds[2].data.json.func = "playVideo"

\* a credential is held: the key of the process configuration, unless absent
\* or the placeholder, or the key typed into the modal
CredentialHeld == apiKey # "" /\ apiKey # PLACEHOLDER_KEY

\* C18: while no credential is held nothing is selected, submitted, sent or
\* requested and the only step possible is the submission of a key, which
\* happens at most once.  Fails: revisions 1 and 2 have no modal and accept a
\* file or a URL without a key.
C18_NoKeyNoAction ==
    /\ [](~CredentialHeld =>
            /\ state = IDLE
            /\ videoSource = NULL
            /\ InFlight = 0
            /\ ChatInFlight = 0)
    /\ [][/\ ~CredentialHeld => lastOp'.op = "saveApiKey"
          /\ lastOp'.op = "saveApiKey" => ~CredentialHeld /\ CredentialHeld']_vars

\* 1 if the condition holds, 0 otherwise
Count(cond) == IF cond THEN 1 ELSE 0

C20_AnalyzingEnds ==
    /\ [](state = ANALYZING => BagIn(videoSource, pending))
    /\ (state = ANALYZING) ~> (state \in {READY, ERROR} \/ Ran("handleReset"))

C20_Witness ==
    /\ Ran("analysisResolved")
    /\ lastOp.from = ANALYZING
    /\ state = READY
    /\ InFlight = 0

\* C21: every analysis stored in READY has a viral score between 1 and 10.
\* Fails: the service stores what JSON.parse returns; the range is only a
\* description in the schema and nothing checks or clamps the number.
C21_ViralScoreInRange ==
    (state = READY /\ analysis # NULL) => analysis.viralScore \in 1..10

\* C25: in READY both the source and the analysis are stored.  Fails: after a
\* reset the success of the abandoned request sets READY while the source is
\* null, and the READY block is not rendered.
C25_ReadyHasSourceAndAnalysis ==
    state = READY => videoSource # NULL /\ analysis # NULL

\* C26: the analysis request that settles is the one issued for the source
\* now stored, so an abandoned request neither stores a result nor moves the
\* view.  Fails: a request abandoned by a reset settles into whatever run is
\* current.
C26_OnlyCurrentRequestSettles ==
    [][lastOp'.op \in {"analysisResolved", "analysisRejected"} =>
          /\ BagIn(videoSource, pending)
          /\ pending' = pending (-) One(videoSource)]_vars

\* the last step called a service function, and the request it built
Issued ==
    /\ lastOp.op \in {"handleFileSelect", "handleYoutubeSubmit", "handleSend"}
    /\ lastOp.arg.request # NoRequest

HasSearch(request) == "googleSearch" \in request.tools
MediaOf(request) ==
    {request.parts[k].inlineData.data :
        k \in {j \in 1..Len(request.parts) : "inlineData" \in DOMAIN request.parts[j]}}

\* C22: a request asks for the search tool exactly when its source is a URL
\* source and carries the file inline exactly when its source is a file, for
\* analyses and for every chat turn; every accepted submission builds one.
C22_SearchIffUrlMediaIffFile ==
    /\ (Ran("handleFileSelect") \/ (Ran("handleYoutubeSubmit") /\ UrlAccepted) \/ SendAccepted)
          => Issued
    /\ Issued =>
          /\ HasSearch(lastOp.arg.request) <=> videoSource.type = "youtube"
          /\ MediaOf(lastOp.arg.request) # {} <=> videoSource.type = "file"
          /\ videoSource.type = "file" => MediaOf(lastOp.arg.request) = {videoSource.file}

C22_Witness ==
    /\ SendAccepted
    /\ Issued
    /\ videoSource.type = "youtube"
    /\ HasSearch(lastOp.arg.request)
    /\ Len(messages) = 4

\* the text parts of a request
TextsOf(request) ==
    {k \in 1..Len(request.parts) : "text" \in DOMAIN request.parts[k]}

\* C23: the context of a chat request is the log as it stood before the send,
\* greeting first, every turn once and in order, and the new message once, as
\* the question and not as a turn of the history.
C23_ContextIsLogPlusMessage ==
    SendAccepted =>
        /\ Cardinality(TextsOf(lastOp.arg.request)) = 1
        /\ \A k \in TextsOf(lastOp.arg.request) :
              LET ctx == lastOp.arg.request.parts[k].text IN
              /\ Len(ctx.history) = Len(messages) - 1
              /\ \A i \in 1..(Len(messages) - 1) :
                    ctx.history[i] = [role |-> messages[i].role,
                                      parts |-> <<[text |-> messages[i].text]>>]
              /\ ctx.history[1].parts[1].text = GREETING
              /\ ctx.question = lastOp.arg.input
              /\ ctx.question = messages[Len(messages)].text

C23_Witness ==
    /\ SendAccepted
    /\ videoSource.type = "file"
    /\ Len(messages) = 4
    /\ Len(lastOp.arg.request.parts[2].text.history) = 3

\* the last step was a handleSend that returned at its guard
SendRefused == lastOp.op = "handleSend" /\ ~(Trim(lastOp.arg.input) # <<>> /\ ~lastOp.arg.isLoading)

\* C27: a conversation has at most one chat request outstanding, and a send
\* while a reply is pending or with blank input appends no turn, issues no
\* request and leaves the log and the loading flag as they were.
C27_OneChatRequest ==
    /\ [](LiveInFlight <= 1)
    /\ [](SendRefused => lastOp.arg.request = NoRequest)
    /\ [][SendRefused' =>
            /\ messages' = messages
            /\ isLoading' = isLoading
            /\ chatPending' = chatPending]_vars

C27_Witness ==
    /\ SendRefused
    /\ lastOp.arg.isLoading
    /\ Trim(lastOp.arg.input) # <<>>
    /\ LiveInFlight = 1
    /\ isLoading

\* C28: the log of a conversation starts with the greeting of the model, its
\* roles alternate model, user, model, ..., and when no reply is pending its
\* last turn is a model turn.
C28_RolesAlternate ==
    ChatMounted =>
        /\ Len(messages) >= 1
        /\ messages[1] = [role |-> "model", text |-> GREETING]
        /\ \A i \in 1..Len(messages) :
              messages[i].role = IF i % 2 = 1 THEN "model" ELSE "user"
        /\ LiveInFlight = 0 => messages[Len(messages)].role = "model"

C28_Witness ==
    /\ ChatMounted
    /\ Ran("chatRejected")
    /\ lastOp.arg.req.live
    /\ LiveInFlight = 0
    /\ Len(messages) = 5
    /\ messages[4].role = "user"

\* a suspended handleSend call runs on
ChatSettle ==
    \E req \in BagToSet(chatPending), o \in ChatOutcomes :
        chatResolved(req, o) \/ chatRejected(req, o)

\* every chat request settles
FairChat == Spec /\ WF_vars(ChatSettle)

\* C29: the loading flag is set exactly while a request of the conversation
\* is outstanding: an accepted send sets it, the reply and the failure clear
\* it, and if every request settles a set flag is cleared again.
C29_LoadingIffOutstanding ==
    /\ [](isLoading <=> LiveInFlight = 1)
    /\ [](SendAccepted => isLoading)
    /\ []((ChatSettled /\ lastOp.arg.req.live) => ~isLoading)
    /\ (isLoading ~> ~isLoading)

C29_Witness ==
    /\ Ran("chatResolved")
    /\ lastOp.arg.req.live
    /\ ~isLoading
    /\ LiveInFlight = 0
    /\ Len(messages) = 3

\* C30: a conversation begins with the greeting alone, whatever was said
\* before the reset, and the reply or the failure of a request of an earlier
\* conversation adds no turn to the log.
C30_NewConversationGreetingOnly ==
    [][/\ (~ChatMounted /\ ChatMounted') =>
             /\ messages' = <<[role |-> "model", text |-> GREETING]>>
             /\ ~isLoading'
       /\ (lastOp'.op \in {"chatResolved", "chatRejected"} /\ ~lastOp'.arg.req.live) =>
             messages' = messages]_vars

C30_Witness ==
    /\ ChatMounted
    /\ ChatSettled
    /\ ~lastOp.arg.req.live
    /\ messages = <<[role |-> "model", text |-> GREETING]>>

\* the video element of a file source is on display
FilePlayerShown == FilePlayerIn(state, videoSource, analysis)

\* C24: every blob URL is revoked when its player goes, so at most one is
\* unrevoked, none once no file is on display, and the one of the player on
\* display is not revoked.  Fails under React.StrictMode in a development
\* build: the URL of the discarded useMemo call is never revoked, and the
\* clean-up that StrictMode runs at creation revokes the URL on display.
C24_BlobUrlsRevoked ==
    /\ blobs.live <= 1
    /\ FilePlayerShown => blobs.shown = "live"
    /\ ~FilePlayerShown => blobs.live = 0

====
